---- MODULE Spec2Model ----
(***************************************************************************)
(* DevScope (pythonproto.py): the inverted-index engine.                   *)
(*                                                                         *)
(* index() walks a list of files, tokenizes each, writes docs.bin and      *)
(* accumulates mem_index; then it writes index.bin and lexicon.bin.        *)
(* search() loads docs.bin and lexicon.bin, fetches the postings of every  *)
(* query term from index.bin, filters, scores, AND-reduces and sorts.      *)
(*                                                                         *)
(* Strings and files are sequences of byte values (0..255); the binary     *)
(* artifacts are modelled byte for byte, little-endian, as struct.pack     *)
(* writes them and struct.unpack / f.read read them.                        *)
(***************************************************************************)
EXTENDS Integers, Sequences, FiniteSets, TLC

VARIABLES files, next, pc, doc_id_counter, docsBin, wrote, mem_index,
          idxBin, lexBin, lexWrote, cut, query, status, results

vars == <<files, next, pc, doc_id_counter, docsBin, wrote, mem_index,
          idxBin, lexBin, lexWrote, cut, query, status, results>>

(***************************************************************************)
(* Bounds of the model.                                                    *)
(***************************************************************************)
\* files of one walk
MaxFiles == 2
\* parts of one query string
MaxParts == 2
\* files of one walk in the truncation specification
MaxTruncFiles == 2

(***************************************************************************)
(* Program constants.                                                      *)
(***************************************************************************)
META_NONE == 0
META_IN_FILENAME == 1
META_IN_FUNCNAME == 2
META_LOG_ERROR == 4
META_LOG_WARN == 8
DOC_TYPE_CODE == 0
DOC_TYPE_LOG == 1
\* doc_type = -1 in index(): the extension is not indexed
DOC_TYPE_NONE == -1
\* term.encode('utf-8')[:255]
MaxTermBytes == 255
\* struct sizes: '<IBH', '<qq' / '<IQI', '<IIBI', '<I'
DocHeaderSize == 7
TrailerSize == 16
PostingHeaderSize == 13
PositionSize == 4
\* score boosts
BoostFilename == 5
BoostFuncname == 3
BoostLogError == 2

(***************************************************************************)
(* Byte strings.                                                           *)
(***************************************************************************)
Min(a, b) == IF a < b THEN a ELSE b

\* s[i:] of Python, i counted from 0
Drop(s, i) == SubSeq(s, i + 1, Len(s))

\* s[:i] of Python; also f.read(i) on the remaining bytes s
Take(s, i) == SubSeq(s, 1, Min(i, Len(s)))

StartsWith(s, p) == Len(s) >= Len(p) /\ SubSeq(s, 1, Len(p)) = p

EndsWith(s, p) == Len(s) >= Len(p) /\ SubSeq(s, Len(s) - Len(p) + 1, Len(s)) = p

\* "sub in s" of Python
Contains(s, sub) ==
    \E i \in 1..(Len(s) - Len(sub) + 1) : SubSeq(s, i, i + Len(sub) - 1) = sub

\* str.upper() and str.lower() on ASCII
Upper(s) == [i \in 1..Len(s) |-> IF s[i] >= 97 /\ s[i] <= 122 THEN s[i] - 32 ELSE s[i]]

Lower(s) == [i \in 1..Len(s) |-> IF s[i] >= 65 /\ s[i] <= 90 THEN s[i] + 32 ELSE s[i]]

\* order of Python str comparison (code points)
StrLess(a, b) ==
    LET m == Min(Len(a), Len(b))
        D == {i \in 1..m : a[i] # b[i]}
    IN  IF D = {} THEN Len(a) < Len(b)
        ELSE LET i == CHOOSE k \in D : \A j \in D : k <= j IN a[i] < b[i]

\* struct.pack little-endian, unsigned, k bytes
RECURSIVE PackLE(_, _)
PackLE(n, k) == IF k = 0 THEN <<>> ELSE <<n % 256>> \o PackLE(n \div 256, k - 1)

\* struct.unpack little-endian, unsigned, of all the bytes of b
RECURSIVE UnpackLE(_)
UnpackLE(b) == IF b = <<>> THEN 0 ELSE b[1] + 256 * UnpackLE(Tail(b))

\* bitwise or of two meta masks (4 flag bits)
BitOr(a, b) ==
    LET bit(x, w) == (x \div w) % 2
        or(w) == IF bit(a, w) = 1 \/ bit(b, w) = 1 THEN w ELSE 0
    IN  or(1) + or(2) + or(4) + or(8)

HasBit(m, w) == (m \div w) % 2 = 1

\* sorted(S) for a set of integers
RECURSIVE SortInts(_)
SortInts(S) ==
    IF S = {} THEN <<>>
    ELSE LET m == CHOOSE x \in S : \A y \in S : x <= y
         IN  <<m>> \o SortInts(S \ {m})

\* sorted(S) for a set of strings
RECURSIVE SortStrs(_)
SortStrs(S) ==
    IF S = {} THEN <<>>
    ELSE LET m == CHOOSE x \in S : \A y \in S \ {x} : StrLess(x, y)
         IN  <<m>> \o SortStrs(S \ {m})

(***************************************************************************)
(* Literals.                                                               *)
(***************************************************************************)
S_foo == <<102, 111, 111>>
S_bar == <<98, 97, 114>>
S_boom == <<98, 111, 111, 109>>
S_def == <<100, 101, 102>>
\* 'ERROR' and 'WARN' of tokenize and search
S_ERROR == <<69, 82, 82, 79, 82>>
S_WARN == <<87, 65, 82, 78>>
S_Error == <<69, 114, 114, 111, 114>>
S_warn == <<119, 97, 114, 110>>
S_zzz == <<122, 122>>
S_ext == <<101, 120, 116, 58>>
S_level == <<108, 101, 118, 101, 108, 58>>
\* 256-byte identifiers that agree on their first 255 bytes
S_longB == [i \in 1..(MaxTermBytes + 1) |-> IF i <= MaxTermBytes THEN 97 ELSE 98]
S_longC == [i \in 1..(MaxTermBytes + 1) |-> IF i <= MaxTermBytes THEN 97 ELSE 99]
S_long == [i \in 1..MaxTermBytes |-> 97]

\* the keywords of RE_FUNC_DEF
FuncKeywords ==
    { <<102, 117, 110, 99>>, S_def, <<102, 117, 110, 99, 116, 105, 111, 110>>,
      <<99, 108, 97, 115, 115>>, <<115, 116, 114, 117, 99, 116>> }

\* the extensions of index()
LogExts == { <<46, 108, 111, 103>> }
CodeExts ==
    { <<46, 103, 111>>, <<46, 112, 121>>, <<46, 106, 115>>, <<46, 116, 115>>,
      <<46, 99>>, <<46, 99, 112, 112>>, <<46, 106, 97, 118, 97>>, <<46, 109, 100>>,
      <<46, 116, 120, 116>>, <<46, 106, 115, 111, 110>> }

(***************************************************************************)
(* The files a walk may meet. A file is its path, whether open/read        *)
(* succeeds, and its lines; a line is the value parse_timestamp gives for  *)
(* it and the identifiers RE_IDENTIFIER finds in it, left to right.        *)
(***************************************************************************)
Line(ts, idents) == [ts |-> ts, idents |-> idents]

File(path, readable, lines) == [path |-> path, readable |-> readable, lines |-> lines]

\* a.py: "def foo" / "foo bar"
F_a == File(<<97, 46, 112, 121>>, TRUE,
            <<Line(0, <<S_def, S_foo>>), Line(0, <<S_foo, S_bar>>)>>)
\* b.TXT: "boom foo"
F_b == File(<<98, 46, 84, 88, 84>>, TRUE, <<Line(0, <<S_boom, S_foo>>)>>)
\* e.log: "<ts 100> Error boom" / "<ts 101> warn foo" / "foo"
F_e == File(<<101, 46, 108, 111, 103>>, TRUE,
            <<Line(100, <<S_Error, S_boom>>), Line(101, <<S_warn, S_foo>>),
              Line(0, <<S_foo>>)>>)
\* u.log: cannot be read
F_u == File(<<117, 46, 108, 111, 103>>, FALSE, <<Line(7, <<S_foo>>)>>)
\* w.log: no line at all
F_w == File(<<119, 46, 108, 111, 103>>, TRUE, <<>>)
\* z.c: cannot be read
F_z == File(<<122, 46, 99>>, FALSE, <<Line(0, <<S_foo>>)>>)
\* n.md: no identifier
F_n == File(<<110, 46, 109, 100>>, TRUE, <<Line(0, <<>>)>>)
\* k.py: two identifiers of 256 bytes with a common 255-byte prefix, and foo
F_k == File(<<107, 46, 112, 121>>, TRUE,
            <<Line(0, <<S_longC, S_foo>>), Line(0, <<S_longB>>)>>)
\* x.bin: not an indexed extension
F_x == File(<<120, 46, 98, 105, 110>>, TRUE, <<Line(0, <<S_foo>>)>>)

Library == {F_a, F_b, F_e, F_u, F_w, F_z, F_n, F_k, F_x}

TruncLibrary == {F_a, F_e}

\* the walks of at most n distinct files of L
Walks(L, n) ==
    {w \in UNION {[1..k -> L] : k \in 0..n} :
        \A i, j \in 1..Len(w) : i # j => w[i] # w[j]}

(***************************************************************************)
(* Tokenizer.                                                              *)
(***************************************************************************)
\* os.path.splitext(file)[1].lower() and the two extension lists
Classify(path) ==
    LET dots == {i \in 2..Len(path) : path[i] = 46}
        ext == IF dots = {} THEN <<>>
               ELSE Lower(Drop(path, (CHOOSE i \in dots : \A j \in dots : j <= i) - 1))
    IN  IF ext \in LogExts THEN DOC_TYPE_LOG
        ELSE IF ext \in CodeExts THEN DOC_TYPE_CODE
        ELSE DOC_TYPE_NONE

\* "X in line.upper()": a run of letters lies inside one identifier
LineHas(line, word) == \E i \in 1..Len(line.idents) : Contains(Upper(line.idents[i]), word)

\* meta of a line: LOG_ERROR, else LOG_WARN, for a LOG document only
LineMeta(doc_type, line) ==
    IF doc_type = DOC_TYPE_LOG
    THEN IF LineHas(line, S_ERROR) THEN META_LOG_ERROR
         ELSE IF LineHas(line, S_WARN) THEN META_LOG_WARN
         ELSE META_NONE
    ELSE META_NONE

\* group 2 of the leftmost RE_FUNC_DEF match, <<>> when there is none
FuncName(line) ==
    LET K == {i \in 1..(Len(line.idents) - 1) : line.idents[i] \in FuncKeywords}
    IN  IF K = {} THEN <<>>
        ELSE line.idents[(CHOOSE i \in K : \A j \in K : i <= j) + 1]

\* the (term, line_num, term_meta) triples of one line
LineTokens(doc_type, line, line_num) ==
    LET meta == LineMeta(doc_type, line)
        func_name == IF doc_type = DOC_TYPE_CODE THEN FuncName(line) ELSE <<>>
    IN  [i \in 1..Len(line.idents) |->
            [term |-> line.idents[i],
             pos |-> line_num,
             meta |-> IF doc_type = DOC_TYPE_CODE /\ func_name # <<>>
                         /\ line.idents[i] = func_name
                      THEN BitOr(meta, META_IN_FUNCNAME)
                      ELSE meta]]

\* the loop over the lines of tokenize, from line i on
RECURSIVE TokenizeLines(_, _, _, _)
TokenizeLines(doc_type, lines, i, acc) ==
    IF i > Len(lines) THEN acc
    ELSE LET ts == IF doc_type = DOC_TYPE_LOG THEN lines[i].ts ELSE 0
             mn == IF ts > 0 /\ (acc.min_ts = 0 \/ ts < acc.min_ts) THEN ts ELSE acc.min_ts
             mx == IF ts > 0 /\ ts > acc.max_ts THEN ts ELSE acc.max_ts
         IN  TokenizeLines(doc_type, lines, i + 1,
                           [tokens |-> acc.tokens \o LineTokens(doc_type, lines[i], i),
                            min_ts |-> mn, max_ts |-> mx])

\* tokenize(path, doc_type): a failed read gives [], 0, 0
tokenize(f, doc_type) ==
    IF ~f.readable THEN [tokens |-> <<>>, min_ts |-> 0, max_ts |-> 0]
    ELSE TokenizeLines(doc_type, f.lines, 1, [tokens |-> <<>>, min_ts |-> 0, max_ts |-> 0])

(***************************************************************************)
(* Indexer.                                                                *)
(***************************************************************************)
\* the bytes write_doc appends to docs.bin
write_doc(doc_id, doc_type, path, t_min, t_max) ==
    PackLE(doc_id, 4) \o PackLE(doc_type, 1) \o PackLE(Len(path), 2) \o path
        \o PackLE(t_min, 8) \o PackLE(t_max, 8)

\* the test of line 128 negated: the file becomes a document
AcceptsAll(tokens, doc_type) == TRUE

Accepts(tokens, doc_type) == ~(tokens = <<>> /\ doc_type = DOC_TYPE_CODE)

NoEntry == [freq |-> 0, pos |-> <<>>, meta |-> 0]

\* entry = mem_index[term][doc_id]; freq += 1; pos.append; meta |= meta
AddToken(mi, tok, did) ==
    LET dm == IF tok.term \in DOMAIN mi THEN mi[tok.term] ELSE <<>>
        e == IF did \in DOMAIN dm THEN dm[did] ELSE NoEntry
        e2 == [freq |-> e.freq + 1, pos |-> Append(e.pos, tok.pos),
               meta |-> BitOr(e.meta, tok.meta)]
        dm2 == [d \in DOMAIN dm \cup {did} |-> IF d = did THEN e2 ELSE dm[d]]
    IN  [t \in DOMAIN mi \cup {tok.term} |-> IF t = tok.term THEN dm2 ELSE mi[t]]

\* the loop of lines 136-140
RECURSIVE AddTokens(_, _, _, _)
AddTokens(mi, tokens, i, did) ==
    IF i > Len(tokens) THEN mi
    ELSE AddTokens(AddToken(mi, tokens[i], did), tokens, i + 1, did)

\* one iteration of "for file in files" of index()
IndexFile ==
    /\ pc = "walk"
    /\ next <= Len(files)
    /\ LET f == files[next]
           doc_type == Classify(f.path)
           t == tokenize(f, doc_type)
       IN  IF doc_type = DOC_TYPE_NONE \/ ~Accepts(t.tokens, doc_type)
           THEN UNCHANGED <<doc_id_counter, docsBin, wrote, mem_index>>
           ELSE /\ docsBin' = docsBin \o write_doc(doc_id_counter, doc_type, f.path,
                                                   t.min_ts, t.max_ts)
                /\ wrote' = Append(wrote, [id |-> doc_id_counter, type |-> doc_type,
                                           path |-> f.path, t_min |-> t.min_ts,
                                           t_max |-> t.max_ts])
                /\ mem_index' = AddTokens(mem_index, t.tokens, 1, doc_id_counter)
                /\ doc_id_counter' = doc_id_counter + 1
    /\ next' = next + 1
    /\ UNCHANGED <<files, pc, idxBin, lexBin, lexWrote, cut, query, status, results>>

\* the positions of one posting, 4 bytes each
RECURSIVE PackPositions(_)
PackPositions(pos) ==
    IF pos = <<>> THEN <<>> ELSE PackLE(Head(pos), PositionSize) \o PackPositions(Tail(pos))

\* header and positions of one posting record of index.bin
PostingBytes(did, entry) ==
    PackLE(did, 4) \o PackLE(entry.freq, 4) \o PackLE(entry.meta, 1)
        \o PackLE(Len(entry.pos), 4) \o PackPositions(entry.pos)

\* what one posting adds to offset_counter, with the factor 4 forgotten
PostingAdvanceNoFactor(entry) == PostingHeaderSize + Len(entry.pos)

\* what one posting adds to offset_counter (lines 165 and 169)
PostingAdvance(entry) == PostingHeaderSize + PositionSize * Len(entry.pos)

\* the loop "for did in doc_ids" of one term
RECURSIVE WritePostings(_, _, _, _)
WritePostings(doc_map, doc_ids, i, acc) ==
    IF i > Len(doc_ids) THEN acc
    ELSE WritePostings(doc_map, doc_ids, i + 1,
                       [idx |-> acc.idx \o PostingBytes(doc_ids[i], doc_map[doc_ids[i]]),
                        offset |-> acc.offset + PostingAdvance(doc_map[doc_ids[i]])])

\* df of a lexicon record, one too many
LexDfOffByOne(doc_ids) == Len(doc_ids) + 1

\* df of a lexicon record: len(doc_ids)
LexDf(doc_ids) == Len(doc_ids)

\* one record of lexicon.bin (lines 172-175)
LexRecord(term, df, start_offset) ==
    LET term_bytes == Take(term, MaxTermBytes)
    IN  PackLE(Len(term_bytes), 1) \o term_bytes \o PackLE(df, 4)
            \o PackLE(start_offset, 8) \o PackLE(0, 4)

\* the loop "for term in terms" of index()
RECURSIVE WriteTerms(_, _, _, _)
WriteTerms(mi, terms, i, acc) ==
    IF i > Len(terms) THEN acc
    ELSE LET doc_map == mi[terms[i]]
             doc_ids == SortInts(DOMAIN doc_map)
             start_offset == acc.offset
             w == WritePostings(doc_map, doc_ids, 1, [idx |-> acc.idx, offset |-> acc.offset])
         IN  WriteTerms(mi, terms, i + 1,
                        [idx |-> w.idx,
                         offset |-> w.offset,
                         lex |-> acc.lex \o LexRecord(terms[i], LexDf(doc_ids), start_offset),
                         recs |-> Append(acc.recs,
                                         [term |-> terms[i],
                                          key |-> Take(terms[i], MaxTermBytes),
                                          df |-> LexDf(doc_ids),
                                          offset |-> start_offset])])

\* lines 148-175 of index(): index.bin and lexicon.bin
WriteIndex ==
    /\ pc = "walk"
    /\ next > Len(files)
    /\ LET w == WriteTerms(mem_index, SortStrs(DOMAIN mem_index), 1,
                           [idx |-> <<>>, offset |-> 0, lex |-> <<>>, recs |-> <<>>])
       IN  /\ idxBin' = w.idx
           /\ lexBin' = w.lex
           /\ lexWrote' = w.recs
    /\ pc' = "built"
    /\ UNCHANGED <<files, next, doc_id_counter, docsBin, wrote, mem_index, cut, query,
                   status, results>>

(***************************************************************************)
(* Searcher: the readers. A reader gives ok = FALSE where Python raises    *)
(* (struct.error on a short buffer), which ends the search.                *)
(***************************************************************************)
\* read_docs on the bytes b that remain, docs being the mapping so far
RECURSIVE read_docs(_, _)
read_docs(b, docs) ==
    IF b = <<>> THEN [ok |-> TRUE, docs |-> docs]
    ELSE IF Len(b) < DocHeaderSize THEN [ok |-> FALSE, docs |-> docs]
    ELSE LET doc_id == UnpackLE(SubSeq(b, 1, 4))
             dtype == b[5]
             path_len == UnpackLE(SubSeq(b, 6, 7))
             r1 == Drop(b, DocHeaderSize)
             path_bytes == Take(r1, path_len)
             r2 == Drop(r1, Len(path_bytes))
             meta == Take(r2, TrailerSize)
             doc == [id |-> doc_id, path |-> path_bytes, type |-> dtype]
         IN  read_docs(Drop(r2, Len(meta)),
                       [d \in DOMAIN docs \cup {doc_id} |->
                           IF d = doc_id THEN doc ELSE docs[d]])

\* read_lexicon on the bytes b that remain, lex being the mapping so far
RECURSIVE read_lexicon(_, _)
read_lexicon(b, lex) ==
    IF b = <<>> THEN [ok |-> TRUE, lex |-> lex]
    ELSE LET length == b[1]
             r1 == Drop(b, 1)
             term == Take(r1, length)
             r2 == Drop(r1, Len(term))
             meta == Take(r2, TrailerSize)
         IN  IF Len(meta) < TrailerSize THEN [ok |-> FALSE, lex |-> lex]
             ELSE LET entry == [df |-> UnpackLE(SubSeq(meta, 1, 4)),
                                offset |-> UnpackLE(SubSeq(meta, 5, 12))]
                  IN  read_lexicon(Drop(r2, TrailerSize),
                                   [t \in DOMAIN lex \cup {term} |->
                                       IF t = term THEN entry ELSE lex[t]])

\* the loop of get_postings: n records still to read at byte offset at
RECURSIVE ReadPostings(_, _, _, _)
ReadPostings(idx, at, n, postings) ==
    IF n = 0 THEN [ok |-> TRUE, postings |-> postings, end |-> at]
    ELSE LET header == Take(Drop(idx, at), PostingHeaderSize)
         IN  IF Len(header) < PostingHeaderSize
             THEN [ok |-> FALSE, postings |-> postings, end |-> at]
             ELSE LET doc_id == UnpackLE(SubSeq(header, 1, 4))
                      freq == UnpackLE(SubSeq(header, 5, 8))
                      meta == header[9]
                      pos_count == UnpackLE(SubSeq(header, 10, 13))
                      pos_data == Take(Drop(idx, at + PostingHeaderSize),
                                       PositionSize * pos_count)
                      stop == at + PostingHeaderSize + Len(pos_data)
                  IN  IF pos_count > 0 /\ Len(pos_data) < PositionSize
                      THEN [ok |-> FALSE, postings |-> postings, end |-> stop]
                      ELSE ReadPostings(idx, stop, n - 1,
                               Append(postings,
                                      [doc_id |-> doc_id, freq |-> freq, meta |-> meta,
                                       line |-> IF pos_count > 0
                                                THEN UnpackLE(Take(pos_data, PositionSize))
                                                ELSE 0]))

\* get_postings(f_idx, offset, doc_freq)
get_postings(idx, offset, doc_freq) == ReadPostings(idx, offset, doc_freq, <<>>)

(***************************************************************************)
(* Searcher: planner and scorer.                                           *)
(***************************************************************************)
\* the loop of lines 246-249, from part i on
RECURSIVE ParseQuery(_, _, _)
ParseQuery(parts, i, acc) ==
    IF i > Len(parts) THEN acc
    ELSE LET p == parts[i]
         IN  ParseQuery(parts, i + 1,
                 IF StartsWith(p, S_ext) THEN [acc EXCEPT !.ext = Lower(Drop(p, 4))]
                 ELSE IF StartsWith(p, S_level) THEN [acc EXCEPT !.level = Upper(Drop(p, 6))]
                 ELSE [acc EXCEPT !.terms = Append(@, p)])

\* filters (None and '' are both <<>>) and terms of a query
PlanQuery(parts) == ParseQuery(parts, 1, [ext |-> <<>>, level |-> <<>>, terms |-> <<>>])

\* 10^6 * log10(k), rounded, for k = 1..10
Log10Table == <<0, 301030, 477121, 602060, 698970, 778151, 845098, 903090, 954243, 1000000>>

\* 1.0 on the scale of Log10Table
ScoreUnit == Log10Table[10]

RECURSIVE Gcd(_, _)
Gcd(a, b) == IF b = 0 THEN a ELSE Gcd(b, a % b)

\* 10^6 * math.log10(n / d) for n, d >= 1
Log10Micro(n, d) ==
    LET g == Gcd(n, d) IN Log10Table[n \div g] - Log10Table[d \div g]

\* lines 268 and 270-271: TRUE when the posting is kept
PassesFilters(filters, doc, p) ==
    /\ ~(filters.ext # <<>> /\ ~EndsWith(Lower(doc.path), filters.ext))
    /\ ~(filters.level = S_ERROR /\ ~HasBit(p.meta, META_LOG_ERROR))

\* lines 274-277, in millionths
PostingScore(p, idf) ==
    p.freq * idf
    + (IF HasBit(p.meta, META_IN_FILENAME) THEN BoostFilename * ScoreUnit ELSE 0)
    + (IF HasBit(p.meta, META_IN_FUNCNAME) THEN BoostFuncname * ScoreUnit ELSE 0)
    + (IF HasBit(p.meta, META_LOG_ERROR) THEN BoostLogError * ScoreUnit ELSE 0)

\* the loop "for p in postings" of one term; acc.order is the key order of matches
RECURSIVE ScorePostings(_, _, _, _, _, _)
ScorePostings(docs, filters, postings, idf, i, acc) ==
    IF i > Len(postings) \/ ~acc.ok THEN acc
    ELSE LET p == postings[i]
         IN  IF p.doc_id \notin DOMAIN docs
             THEN [acc EXCEPT !.ok = FALSE]
             ELSE IF ~PassesFilters(filters, docs[p.doc_id], p)
             THEN ScorePostings(docs, filters, postings, idf, i + 1, acc)
             ELSE LET seen == p.doc_id \in DOMAIN acc.matches
                      D == DOMAIN acc.matches \cup {p.doc_id}
                      sc == (IF seen THEN acc.scores[p.doc_id] ELSE 0) + PostingScore(p, idf)
                      mt == (IF seen THEN acc.matches[p.doc_id] ELSE 0) + 1
                  IN  ScorePostings(docs, filters, postings, idf, i + 1,
                          [ok |-> TRUE,
                           scores |-> [d \in D |-> IF d = p.doc_id THEN sc ELSE acc.scores[d]],
                           matches |-> [d \in D |-> IF d = p.doc_id THEN mt ELSE acc.matches[d]],
                           order |-> IF seen THEN acc.order ELSE Append(acc.order, p.doc_id)])

\* the loop "for term in terms" of search()
RECURSIVE ScoreTerms(_, _, _, _, _, _, _)
ScoreTerms(docs, lexicon, idx, filters, terms, i, acc) ==
    IF i > Len(terms) \/ ~acc.ok THEN acc
    ELSE IF terms[i] \notin DOMAIN lexicon
    THEN ScoreTerms(docs, lexicon, idx, filters, terms, i + 1, acc)
    ELSE LET entry == lexicon[terms[i]]
             g == get_postings(idx, entry.offset, entry.df)
             total_docs == Cardinality(DOMAIN docs)
         IN  IF ~g.ok \/ total_docs = 0
             THEN [acc EXCEPT !.ok = FALSE]
             ELSE ScoreTerms(docs, lexicon, idx, filters, terms, i + 1,
                      ScorePostings(docs, filters, g.postings,
                                    Log10Micro(total_docs, entry.df + 1), 1, acc))

\* a document qualifies when at least one term matched it
QualifiesAny(count, nterms) == count >= 1

\* line 285: a document qualifies when every term matched it
Qualifies(count, nterms) == count = nterms

\* x put into the descending sequence s before its equals
InsertBeforeEquals(s, x) ==
    LET k == Cardinality({j \in 1..Len(s) : s[j][2] > x[2]})
    IN  SubSeq(s, 1, k) \o <<x>> \o SubSeq(s, k + 1, Len(s))

\* x put into the descending sequence s after its equals (the sort is stable)
InsertDescending(s, x) ==
    LET k == Cardinality({j \in 1..Len(s) : s[j][2] >= x[2]})
    IN  SubSeq(s, 1, k) \o <<x>> \o SubSeq(s, k + 1, Len(s))

\* results.sort(key=lambda x: x[1], reverse=True), on rs[i..]
RECURSIVE SortResults(_, _, _)
SortResults(rs, i, sorted) ==
    IF i > Len(rs) THEN sorted
    ELSE SortResults(rs, i + 1, InsertDescending(sorted, rs[i]))

\* lines 283-286: the (doc_id, score) pairs in the key order of matches
RECURSIVE AndReduce(_, _, _)
AndReduce(acc, nterms, i) ==
    IF i > Len(acc.order) THEN <<>>
    ELSE LET d == acc.order[i]
         IN  (IF Qualifies(acc.matches[d], nterms) THEN <<(<<d, acc.scores[d]>>)>> ELSE <<>>)
                 \o AndReduce(acc, nterms, i + 1)

\* search(query_str) on the three artifacts; parts is query_str.split()
search(docsB, lexB, idxB, parts) ==
    LET rd == read_docs(docsB, <<>>)
        rl == read_lexicon(lexB, <<>>)
        q == PlanQuery(parts)
    IN  IF ~rd.ok \/ ~rl.ok THEN [status |-> "fatal", results |-> <<>>]
        ELSE IF q.terms = <<>> THEN [status |-> "ok", results |-> <<>>]
        ELSE LET acc == ScoreTerms(rd.docs, rl.lex, idxB, q, q.terms, 1,
                                   [ok |-> TRUE, scores |-> <<>>, matches |-> <<>>,
                                    order |-> <<>>])
             IN  IF ~acc.ok THEN [status |-> "fatal", results |-> <<>>]
                 ELSE [status |-> "ok",
                       results |-> SortResults(AndReduce(acc, Len(q.terms), 1), 1, <<>>)]

(***************************************************************************)
(* The queries.                                                            *)
(***************************************************************************)
\* ext:.LOG, level:error, level:warn
Q_extLog == S_ext \o <<46, 76, 79, 71>>
Q_levelError == S_level \o <<101, 114, 114, 111, 114>>
Q_levelWarn == S_level \o S_warn

QueryParts == {S_foo, S_boom, S_zzz, S_long, Q_extLog, Q_levelError, Q_levelWarn}

TruncQueryParts == {S_foo, S_boom}

QueriesOf(P, n) == UNION {[1..k -> P] : k \in 0..n}

\* one run of search
Search(P, n) ==
    /\ pc = "built"
    /\ \E parts \in QueriesOf(P, n) :
          LET r == search(docsBin, lexBin, idxBin, parts)
          IN  /\ query' = parts
              /\ status' = r.status
              /\ results' = r.results
    /\ pc' = "searched"
    /\ UNCHANGED <<files, next, doc_id_counter, docsBin, wrote, mem_index, idxBin, lexBin,
                   lexWrote, cut>>

SearchAny == Search(QueryParts, MaxParts)

SearchTrunc == Search(TruncQueryParts, 1)

\* an artifact is cut short between the build and the search
Truncate ==
    /\ pc = "built"
    /\ cut = <<>>
    /\ \/ \E n \in 0..(Len(docsBin) - 1) :
             /\ docsBin' = Take(docsBin, n)
             /\ cut' = <<"docs", n>>
             /\ UNCHANGED <<lexBin, idxBin>>
       \/ \E n \in 0..(Len(lexBin) - 1) :
             /\ lexBin' = Take(lexBin, n)
             /\ cut' = <<"lexicon", n>>
             /\ UNCHANGED <<docsBin, idxBin>>
       \/ \E n \in 0..(Len(idxBin) - 1) :
             /\ idxBin' = Take(idxBin, n)
             /\ cut' = <<"index", n>>
             /\ UNCHANGED <<docsBin, lexBin>>
    /\ UNCHANGED <<files, next, pc, doc_id_counter, wrote, mem_index, lexWrote, query,
                   status, results>>

(***************************************************************************)
(* Specifications.                                                         *)
(***************************************************************************)
InitWith(W) ==
    /\ files \in W
    /\ next = 1
    /\ pc = "walk"
    /\ doc_id_counter = 1
    /\ docsBin = <<>>
    /\ wrote = <<>>
    /\ mem_index = <<>>
    /\ idxBin = <<>>
    /\ lexBin = <<>>
    /\ lexWrote = <<>>
    /\ cut = <<>>
    /\ query = <<>>
    /\ status = "none"
    /\ results = <<>>

Init == InitWith(Walks(Library, MaxFiles))

Next == IndexFile \/ WriteIndex \/ SearchAny

Spec == Init /\ [][Next]_vars

InitTrunc == InitWith(Walks(TruncLibrary, MaxTruncFiles))

NextTrunc == IndexFile \/ WriteIndex \/ Truncate \/ SearchTrunc

SpecTrunc == InitTrunc /\ [][NextTrunc]_vars

(***************************************************************************)
(* Properties.                                                             *)
(***************************************************************************)
\* index() has returned and the three artifacts are complete; search() only
\* reads them
Built == pc = "built"

\* the documents and the lexicon as search() loads them
LoadedDocs == read_docs(docsBin, <<>>)
LoadedLexicon == read_lexicon(lexBin, <<>>)

\* the filters and the term list of the last query
Plan == PlanQuery(query)

ResultIds == {results[i][1] : i \in 1..Len(results)}

\* the lexicon record a key resolves to: the last one written with that key
LastRecord(key) ==
    LET I == {i \in 1..Len(lexWrote) : lexWrote[i].key = key}
    IN  lexWrote[CHOOSE i \in I : \A j \in I : j <= i]

InLexicon(term) == \E i \in 1..Len(lexWrote) : lexWrote[i].key = term

\* the filter gate, on what the indexer accumulated for document d under term
Gate(plan, term, d) ==
    /\ plan.ext # <<>> => EndsWith(Lower(wrote[d].path), plan.ext)
    /\ plan.level = S_ERROR => HasBit(mem_index[term][d].meta, META_LOG_ERROR)

\* the documents that every token of the term list matches
AndHits(plan) ==
    {d \in 1..Len(wrote) :
        \A i \in 1..Len(plan.terms) :
            /\ InLexicon(plan.terms[i])
            /\ LET t == LastRecord(plan.terms[i]).term
               IN  d \in DOMAIN mem_index[t] /\ Gate(plan, t, d)}

\* C1: AND semantics. After a search with a non-empty term list, a document is
\* a result, once, if and only if every token of the term list is a lexicon
\* key and the document has a posting under that key that passes the ext and
\* level:ERROR filters; so one term absent from the lexicon empties the result.
C1_AndSemantics ==
    pc = "searched" =>
        LET plan == Plan
        IN  plan.terms # <<>> =>
                /\ status = "ok"
                /\ ResultIds = AndHits(plan)
                /\ Len(results) = Cardinality(ResultIds)

\* a two-term query with a filter and a repeated term's worth of counting:
\* some document is returned and some document matched by one term only is not
C1_Witness ==
    /\ pc = "searched"
    /\ Len(Plan.terms) = 2
    /\ Plan.terms[1] # Plan.terms[2]
    /\ results # <<>>
    /\ \E d \in 1..Len(wrote) :
          /\ d \notin ResultIds
          /\ InLexicon(Plan.terms[1])
          /\ d \in DOMAIN mem_index[LastRecord(Plan.terms[1]).term]

\* C2: ranking order. The results are in descending order of score, and
\* results of equal score are in ascending doc_id order.
C2_RankingOrder ==
    pc = "searched" =>
        \A i, j \in 1..Len(results) :
            i < j => \/ results[i][2] > results[j][2]
                     \/ results[i][2] = results[j][2] /\ results[i][1] < results[j][1]

\* two results tie, under a query of two terms
C2_Witness ==
    /\ pc = "searched"
    /\ Len(Plan.terms) = 2
    /\ Len(results) >= 2
    /\ results[1][2] = results[2][2]

\* C3: a level: filter whose uppercased value is not ERROR matches nothing:
\* the search ends normally with an empty result.
C3_UnknownLevelMatchesNothing ==
    (pc = "searched" /\ Plan.level \notin {<<>>, S_ERROR}) =>
        status = "ok" /\ results = <<>>

\* C4: document round-trip. read_docs maps every doc_id written to a document
\* that equals the written one in id, type, path, t_min and t_max.
C4_DocRoundTrip ==
    Built =>
      LET rd == LoadedDocs IN
        /\ rd.ok
        /\ DOMAIN rd.docs = {wrote[i].id : i \in 1..Len(wrote)}
        /\ \A i \in 1..Len(wrote) :
              LET d == rd.docs[wrote[i].id]
              IN  /\ d.id = wrote[i].id
                  /\ d.type = wrote[i].type
                  /\ d.path = wrote[i].path
                  /\ "t_min" \in DOMAIN d /\ d.t_min = wrote[i].t_min
                  /\ "t_max" \in DOMAIN d /\ d.t_max = wrote[i].t_max

\* the records of lexicon.bin in file order, each with the byte offset of its end
RECURSIVE LexRecords(_, _, _)
LexRecords(b, at, recs) ==
    IF Len(b) - at < 1 + TrailerSize THEN recs
    ELSE LET n == b[at + 1]
             meta == SubSeq(b, at + 1 + n + 1, at + 1 + n + TrailerSize)
         IN  LexRecords(b, at + 1 + n + TrailerSize,
                        Append(recs, [key |-> SubSeq(b, at + 2, at + 1 + n),
                                      df |-> UnpackLE(SubSeq(meta, 1, 4)),
                                      offset |-> UnpackLE(SubSeq(meta, 5, 12)),
                                      reserved |-> UnpackLE(SubSeq(meta, 13, 16)),
                                      end |-> at + 1 + n + TrailerSize]))

LexOnDisk == LexRecords(lexBin, 0, <<>>)

\* 13 + 4*freq, the size of the posting record of one accumulator entry
RecordSize(entry) == 13 + 4 * entry.freq

RECURSIVE SumSizes(_, _)
SumSizes(doc_map, D) ==
    IF D = {} THEN 0
    ELSE LET d == CHOOSE x \in D : TRUE
         IN  RecordSize(doc_map[d]) + SumSizes(doc_map, D \ {d})

\* the bytes the postings of the first n terms written take
RECURSIVE RegionStart(_)
RegionStart(n) ==
    IF n = 0 THEN 0
    ELSE RegionStart(n - 1)
         + SumSizes(mem_index[lexWrote[n].term], DOMAIN mem_index[lexWrote[n].term])

\* C5: lexicon offsets and df. Every lexicon record's offset is the sum of
\* 13 + 4*freq over the postings of the terms written before it; get_postings
\* from that offset with the record's df gives the term's accumulated postings
\* in strictly ascending doc_id order, each with its freq, meta and first
\* line, and stops where the next term's region starts (at the end of
\* index.bin for the last term).
C5_LexiconOffsets ==
    Built =>
      LET lex == LexOnDisk IN
        /\ Len(lex) = Len(lexWrote)
        /\ Len(lexWrote) = Cardinality(DOMAIN mem_index)
        /\ \A i \in 1..Len(lex) :
              LET rec == lex[i]
                  doc_map == mem_index[lexWrote[i].term]
                  g == get_postings(idxBin, rec.offset, rec.df)
              IN  /\ rec.offset = RegionStart(i - 1)
                  /\ rec.df = Cardinality(DOMAIN doc_map)
                  /\ g.ok
                  /\ {g.postings[k].doc_id : k \in 1..Len(g.postings)} = DOMAIN doc_map
                  /\ \A k \in 1..Len(g.postings) :
                        LET p == g.postings[k]
                        IN  /\ p.doc_id \in DOMAIN doc_map
                            /\ p.freq = doc_map[p.doc_id].freq
                            /\ p.meta = doc_map[p.doc_id].meta
                            /\ p.line = doc_map[p.doc_id].pos[1]
                            /\ k > 1 => g.postings[k - 1].doc_id < p.doc_id
                  /\ g.end = IF i < Len(lex) THEN lex[i + 1].offset ELSE Len(idxBin)

\* a term in two documents, in one of them twice, is followed by another term
C5_Witness ==
    /\ pc = "built"
    /\ \E i \in 1..(Len(lexWrote) - 1) :
          /\ lexWrote[i].df = 2
          /\ \E d \in DOMAIN mem_index[lexWrote[i].term] :
                mem_index[lexWrote[i].term][d].freq >= 2

\* the file becomes a document: a LOG file always, a CODE file when some line
\* of it that can be read holds an identifier
AcceptedFile(f) ==
    \/ Classify(f.path) = DOC_TYPE_LOG
    \/ /\ Classify(f.path) = DOC_TYPE_CODE
       /\ f.readable
       /\ \E l \in 1..Len(f.lines) : f.lines[l].idents # <<>>

\* C6: dense document ids. The ids written to docs.bin are 1, 2, ..., N in
\* write order, one per accepted file in walk order; a CODE file without
\* tokens writes no record and consumes no id, a LOG file without tokens is
\* written and gets an id.
C6_DenseIds ==
    LET accepted == SelectSeq(SubSeq(files, 1, next - 1), AcceptedFile)
    IN  /\ doc_id_counter = Len(wrote) + 1
        /\ Len(wrote) = Len(accepted)
        /\ \A i \in 1..Len(wrote) : wrote[i].id = i /\ wrote[i].path = accepted[i].path
        /\ Built => LET rd == LoadedDocs
                    IN  /\ rd.ok
                        /\ DOMAIN rd.docs = 1..Len(accepted)
                        /\ \A i \in 1..Len(accepted) : rd.docs[i].path = accepted[i].path

\* a CODE file without tokens, then a LOG file without tokens that gets id 1
C6_Witness ==
    /\ pc = "built"
    /\ Len(files) = 2
    /\ Classify(files[1].path) = DOC_TYPE_CODE
    /\ files[1].readable
    /\ tokenize(files[1], DOC_TYPE_CODE).tokens = <<>>
    /\ Classify(files[2].path) = DOC_TYPE_LOG
    /\ files[2].readable
    /\ tokenize(files[2], DOC_TYPE_LOG).tokens = <<>>
    /\ Len(wrote) = 1
    /\ wrote[1].id = 1
    /\ wrote[1].path = files[2].path

\* C7: a file whose read fails is skipped, CODE or LOG: no document record is
\* written for it and it consumes no id.
C7_SkipFile ==
    \A i \in 1..Len(wrote) :
        \A k \in 1..Len(files) : files[k].path = wrote[i].path => files[k].readable

\* C8: lexicon round-trip without duplicates. No two records of lexicon.bin
\* carry the same key, and read_lexicon maps the key of every accumulator term
\* to the df and offset written for that term.
C8_LexiconRoundTrip ==
    Built =>
      LET lex == LexOnDisk
          rl == LoadedLexicon
      IN
        /\ \A i, j \in 1..Len(lex) : i # j => lex[i].key # lex[j].key
        /\ rl.ok
        /\ \A i \in 1..Len(lexWrote) :
              /\ lexWrote[i].key \in DOMAIN rl.lex
              /\ rl.lex[lexWrote[i].key]
                     = [df |-> lexWrote[i].df, offset |-> lexWrote[i].offset]

\* the byte offsets at which the records written to docs.bin end
DocBoundaries ==
    LET RECURSIVE End(_)
        End(i) == IF i = 0 THEN 0
                  ELSE End(i - 1) + DocHeaderSize + Len(wrote[i].path) + TrailerSize
    IN  {End(i) : i \in 0..Len(wrote)}

\* the byte offsets at which the records written to lexicon.bin end
LexBoundaries ==
    LET RECURSIVE End(_)
        End(i) == IF i = 0 THEN 0
                  ELSE End(i - 1) + 1 + Len(lexWrote[i].key) + TrailerSize
    IN  {End(i) : i \in 0..Len(lexWrote)}

\* the byte offsets at which the posting records written to index.bin end
IdxBoundaries ==
    {0} \cup
    UNION {LET doc_map == mem_index[lexWrote[i].term]
           IN  {RegionStart(i - 1) + SumSizes(doc_map, {e \in DOMAIN doc_map : e <= d}) :
                   d \in DOMAIN doc_map} : i \in 1..Len(lexWrote)}

\* the artifact was cut inside a record, and the search reads up to the cut
CutInsideRecordRead ==
    /\ cut # <<>>
    /\ cut[1] = "docs" => cut[2] \notin DocBoundaries
    /\ cut[1] = "lexicon" => cut[2] \notin LexBoundaries
    /\ cut[1] = "index" =>
          /\ cut[2] \notin IdxBoundaries
          /\ \E i \in 1..Len(lexWrote) :
                /\ \E k \in 1..Len(Plan.terms) : Plan.terms[k] = lexWrote[i].key
                /\ RegionStart(i) > cut[2]

\* C9: an artifact truncated in the middle of a record makes the search that
\* loads it (here a search with a non-empty term list) end in a fatal error,
\* with no ranked results.
C9_MalformedIndexFatal ==
    (pc = "searched" /\ Plan.terms # <<>> /\ CutInsideRecordRead) =>
        status = "fatal" /\ results = <<>>

\* C10: referential integrity. Every doc_id in a posting of index.bin is the id
\* of a record of docs.bin and every lexicon entry has 1 <= df <= number of
\* documents; so every search ends normally (docs[p.doc_id] is found and the
\* argument of log10 is positive).
C10_ReferentialIntegrity ==
    /\ Built =>
          LET rd == LoadedDocs
              rl == LoadedLexicon
              lex == LexOnDisk
              total_docs == Cardinality(DOMAIN rd.docs)
          IN  /\ rd.ok /\ rl.ok
              /\ \A i \in 1..Len(lex) :
                    LET g == get_postings(idxBin, lex[i].offset, lex[i].df)
                    IN  /\ 1 <= lex[i].df /\ lex[i].df <= total_docs
                        /\ g.ok
                        /\ \A k \in 1..Len(g.postings) :
                              g.postings[k].doc_id \in DOMAIN rd.docs
              /\ \A t \in DOMAIN rl.lex : 1 <= rl.lex[t].df /\ rl.lex[t].df <= total_docs
    /\ pc = "searched" => status = "ok"

\* a search that scored postings of a term that every one of two documents holds
C10_Witness ==
    /\ pc = "searched"
    /\ status = "ok"
    /\ Len(wrote) = 2
    /\ Len(results) = 2
    /\ \E i \in 1..Len(lexWrote) :
          lexWrote[i].df = 2 /\ lexWrote[i].key = Plan.terms[1]

====
